---- MODULE Spec2Model ----
(***************************************************************************)
(* ds_gamestate: EventStream (a byte arena of typed records) and the       *)
(* StateMachine that resets it every frame and passes it to the active     *)
(* GameStates (src/StateMachine.h).                                        *)
(*                                                                         *)
(* Conventions of the model                                                *)
(*  - a byte is a number 0..255; a uint32_t or a size_t is the tuple of    *)
(*    its bytes in memory, least significant first (little-endian build),  *)
(*    so that every 32-bit value, 2^31 and above included, is exact;       *)
(*  - an arena cell that was never written holds Indeterminate; a read of  *)
(*    it, a read outside the arena and a read outside the vector yield     *)
(*    the values of a resolution u \in UB, and the properties quantify     *)
(*    over every u;                                                        *)
(*  - sizeof_size_t is the build's sizeof(size_t): 4 or 8.                 *)
(***************************************************************************)
EXTENDS Integers, Sequences, FiniteSets, TLC

VARIABLES
    sizeof_size_t,  \* sizeof(size_t) of the build (4 or 8), fixed
    _stream,        \* the EventStream: [_data, _mappings, _index]
    added,          \* history: the add calls since the last reset, in order:
                    \* [type, p (<<>> for add(type)), by (the GameState whose
                    \* tick made the call, 0 for the host)]
    halted,         \* the process died in an out-of-bounds write
    objs,           \* the GameStates constructed, by address 1, 2, ...
    _states,        \* StateMachine::_states, a vector of addresses
    calls,          \* history: the callbacks the last call of the machine
                    \* invoked, in order, and the reset of its stream
    activated,      \* history: the GameStates whose activate() was invoked
    op,             \* history: the last call made
    resets          \* history: the number of resets of the stream so far

vars == <<sizeof_size_t, _stream, added, halted, objs, _states, calls,
          activated, op, resets>>

----------------------------------------------------------------------------
(* Program constants *)

Capacity == 4096

EVENT_HEADER_SIZE == 12

(* Bounds of the model *)

MaxRecords == 2

MaxResets == 2

MaxStates == 2

MaxFrames == 2

----------------------------------------------------------------------------
(* Bytes and integers in memory *)

Byte == 0..255

Indeterminate == 255 + 1

RECURSIVE LE(_, _)
\* the w bytes of n, least significant first
LE(n, w) == IF w = 0 THEN <<>> ELSE <<n % 256>> \o LE(n \div 256, w - 1)

\* uint32_t from a number below 2^31
U32(n) == LE(n, 4)

\* the uint32_t 2^31 + n, for n below 2^31
U32High(n) == [U32(n) EXCEPT ![4] = @ + 128]

\* size_t of this build from a number below 2^31
SizeT(n) == LE(n, sizeof_size_t)

\* the first 4 bytes in memory of a size_t holding n (what a 12-byte copy
\* of the header takes of it)
SizeTLow32(n) == LE(n, 4)

\* TRUE when the bytes are a number below 2^31
IsSmall(b) ==
    /\ \A k \in 5..Len(b) : b[k] = 0
    /\ b[4] < 128

\* the number a small byte tuple holds
Small(b) == b[1] + 256 * b[2] + 65536 * b[3] + 16777216 * b[4]

\* uint32_t -> int (the conversion of `return header->type` in getType)
IntOfU32(b) ==
    IF b[4] < 128 THEN Small(b)
    ELSE b[1] + 256 * b[2] + 65536 * b[3] + 16777216 * (b[4] - 256)

\* int -> uint32_t (the conversion of `getType(i) == type` in containsType)
U32OfInt(r) ==
    IF r >= 0 THEN U32(r)
    ELSE U32High((r + 2147483647) + 1)

----------------------------------------------------------------------------------------------------------------------------------------
(* Memory.  A stretch of memory (the arena, a payload, what a memcpy      *)
(* takes) is the tuple of its runs of equal bytes, [n |-> length, b |->   *)
(* byte], with no empty run and no two neighbours of the same byte, so    *)
(* that equal stretches are equal tuples.                                  *)

Run(n, b) == IF n > 0 THEN <<[n |-> n, b |-> b]>> ELSE <<>>

\* x followed by y
Cat(x, y) ==
    IF x = <<>> THEN y
    ELSE IF y = <<>> THEN x
    ELSE IF x[Len(x)].b = y[1].b
         THEN SubSeq(x, 1, Len(x) - 1)
                \o Run(x[Len(x)].n + y[1].n, y[1].b) \o Tail(y)
         ELSE x \o y

RECURSIVE Size(_)
\* the number of bytes of x
Size(x) == IF x = <<>> THEN 0 ELSE x[1].n + Size(Tail(x))

RECURSIVE Take(_, _)
\* the first n bytes of x (all of x when it has fewer)
Take(x, n) ==
    IF n <= 0 \/ x = <<>> THEN <<>>
    ELSE IF x[1].n >= n THEN Run(n, x[1].b)
    ELSE <<x[1]>> \o Take(Tail(x), n - x[1].n)

RECURSIVE Drop(_, _)
\* x without its first n bytes
Drop(x, n) ==
    IF n <= 0 \/ x = <<>> THEN x
    ELSE IF x[1].n > n THEN Run(x[1].n - n, x[1].b) \o Tail(x)
    ELSE Drop(Tail(x), n - x[1].n)

RECURSIVE Mem(_)
\* the stretch holding the bytes of the tuple seq
Mem(seq) ==
    IF seq = <<>> THEN <<>> ELSE Cat(Run(1, Head(seq)), Mem(Tail(seq)))

RECURSIVE Resolved(_, _)
\* x as a read sees it: an indeterminate cell yields u.byte
Resolved(x, u) ==
    IF x = <<>> THEN <<>>
    ELSE Cat(Run(x[1].n, IF x[1].b = Indeterminate THEN u.byte ELSE x[1].b),
             Resolved(Tail(x), u))

----------------------------------------------------------------------------
(* Inputs *)

Types == {U32(7), U32High(1)}

\* a payload whose record fills the arena exactly
BigPayload == Run(Capacity - EVENT_HEADER_SIZE, 171)

Payloads == {Mem(<<1, 2>>), BigPayload}

\* resolutions of the undefined reads: the byte an indeterminate or foreign
\* cell yields, the value an element outside the vector yields
UB == [byte : {0, 255}, lookup : {0, 5000}]

----------------------------------------------------------------------------
(* EventStream *)

\* memcpy(_data + off, bytes, Size(bytes)); what lands outside the arena is
\* not part of _data
MemWrite(data, off, bytes) ==
    IF off >= Capacity THEN data
    ELSE LET inside == IF off + Size(bytes) <= Capacity THEN Size(bytes)
                       ELSE Capacity - off
         IN  Cat(Cat(Take(data, off), Take(bytes, inside)),
                 Drop(data, off + inside))

\* TRUE when a write of n bytes at off leaves the arena
WritesOutside(off, n) == off + n > Capacity

\* the byte read at address a of the arena
MemByte(data, a, u) ==
    IF a < 0 \/ a >= Capacity THEN u.byte
    ELSE Resolved(Take(Drop(data, a), 1), u)[1].b

\* the tuple of the n bytes at off
MemRead(data, off, n, u) == [k \in 1..n |-> MemByte(data, off + k - 1, u)]

\* reset that leaves the write cursor where it is
reset_KeepsCursor(s) == [s EXCEPT !._mappings = <<>>]

\* EventStream::reset
reset(s) == [s EXCEPT !._mappings = <<>>, !._index = 0]

\* EventStream::num
num(s) == Len(s._mappings)

\* EventStream::addHeader: the first EVENT_HEADER_SIZE bytes of the header,
\* which are id, type and the first 4 bytes of size
addHeader(s, type, size) ==
    LET header == U32(Len(s._mappings)) \o type \o SizeTLow32(size)
    IN  [s EXCEPT !._data = MemWrite(@, s._index,
                                Mem(SubSeq(header, 1, EVENT_HEADER_SIZE)))]

\* EventStream::add(uint32_t type, void* p, size_t size)
add_payload(s, type, p, size) ==
    LET h == addHeader(s, type, size)
    IN  [h EXCEPT !._data = MemWrite(@, s._index + EVENT_HEADER_SIZE,
                                     Take(p, size)),
                  !._mappings = Append(@, s._index),
                  !._index = @ + EVENT_HEADER_SIZE + size]

\* EventStream::add(uint32_t type)
add(s, type) ==
    LET h == addHeader(s, type, 0)
    IN  [h EXCEPT !._mappings = Append(@, s._index),
                  !._index = @ + EVENT_HEADER_SIZE]

\* _mappings[index]: an element outside the vector is whatever lies there
Lookup(s, index, u) ==
    IF index < Len(s._mappings) THEN s._mappings[index + 1] ELSE u.lookup

\* header->size, read as a size_t at offset 8 of the header
HeaderSize(s, lookup, u) == MemRead(s._data, lookup + 8, sizeof_size_t, u)

\* what memcpy(p, data, n) takes from the arena, n given as a size_t; what
\* it reads past the end of the arena is not part of the result
Copied(s, from, n, u) ==
    LET upto == IF IsSmall(n) /\ from + Small(n) <= Capacity
                THEN from + Small(n) ELSE Capacity
    IN  Resolved(Take(Drop(s._data, from), upto - from), u)

\* EventStream::get: ret is the value returned, size the number of bytes
\* copied into p (a size_t), bytes those of them that came from the arena,
\* oob whether the call read outside the vector or the arena
get(s, index, u) ==
    LET lookup == Lookup(s, index, u)
        size == HeaderSize(s, lookup, u)
        from == lookup + EVENT_HEADER_SIZE
    IN  [ret |-> TRUE,
         size |-> size,
         bytes |-> Copied(s, from, size, u),
         oob |-> \/ index >= Len(s._mappings)
                 \/ lookup + 8 + sizeof_size_t > Capacity
                 \/ ~IsSmall(size)
                 \/ from + Small(size) > Capacity]

\* EventStream::getType: ret is the int returned
getType(s, index, u) ==
    LET lookup == Lookup(s, index, u)
    IN  [ret |-> IntOfU32(MemRead(s._data, lookup + 4, 4, u)),
         oob |-> \/ index >= Len(s._mappings)
                 \/ lookup + 8 > Capacity]

RECURSIVE containsTypeFrom(_, _, _, _)

\* containsType with a loop that starts at 1
containsType_FromOne(s, type, u) == containsTypeFrom(s, type, 1, u)

\* the loop of EventStream::containsType from i on
containsTypeFrom(s, type, i, u) ==
    IF i < Len(s._mappings)
    THEN IF U32OfInt(getType(s, i, u).ret) = type THEN TRUE
         ELSE containsTypeFrom(s, type, i + 1, u)
    ELSE FALSE

\* EventStream::containsType
containsType(s, type, u) == containsTypeFrom(s, type, 0, u)

\* EventStream::EventStream: new char[4096], reset()
EventStream ==
    reset([_data |-> Run(Capacity, Indeterminate),
           _mappings |-> <<>>,
           _index |-> 0])

----------------
(* Name hashing *)

RECURSIVE Xor8(_, _, _)
\* a ^ b on the low `bits` bits
Xor8(a, b, bits) ==
    IF bits = 0 THEN 0
    ELSE ((a + b) % 2) + 2 * Xor8(a \div 2, b \div 2, bits - 1)

\* a * b modulo 2^32 on uint32_t
Mul32(a, b) ==
    LET c1 == a[1] * b[1]
        c2 == a[1] * b[2] + a[2] * b[1] + (c1 \div 256)
        c3 == a[1] * b[3] + a[2] * b[2] + a[3] * b[1] + (c2 \div 256)
        c4 == a[1] * b[4] + a[2] * b[3] + a[3] * b[2] + a[4] * b[1]
                + (c3 \div 256)
    IN  <<c1 % 256, c2 % 256, c3 % 256, c4 % 256>>

FNV_Prime == U32(16777619)

FNV_Seed == U32High(18652613)

RECURSIVE fnv1a(_, _)
\* fnv1a(text, hash): text is the tuple of the characters before the 0
fnv1a(text, hash) ==
    IF text = <<>> THEN hash
    ELSE fnv1a(Tail(text),
               Mul32([hash EXCEPT ![1] = Xor8(Head(text), @, 8)], FNV_Prime))

----------------------------------------------------------------------------
(* GameState *)

\* GameState::GameState(name)
GameState(name) == [_active |-> FALSE, _hash |-> fnv1a(name, FNV_Seed)]

\* GameState::isActive
isActive(state) == state._active

\* GameState::getHash
getHash(state) == state._hash

\* activate() of a concrete state: the flag is set
GameState_activate(state) == [state EXCEPT !._active = TRUE]

\* deactivate() of a concrete state: the flag is cleared
GameState_deactivate(state) == [state EXCEPT !._active = FALSE]

----------------------------------------------------------------------------
(* Inputs of the dispatcher *)

\* "altarage" and "zinke" have the same fnv1a hash
Altarage == <<97, 108, 116, 97, 114, 97, 103, 101>>

Zinke == <<122, 105, 110, 107, 101>>

Intro == <<73, 110, 116, 114, 111>>

Menu == <<77, 101, 110, 117>>

\* the states the host constructs, by address
StateNames == <<Altarage, Zinke, Intro>>

\* the names the host passes to activate and deactivate ("altarage" would
\* do what "zinke" does)
Names == {Zinke, Intro, Menu}

\* what the tick callback of a state does with the stream and the machine
Behaviours ==
    {[do |-> "nothing"]}
        \cup [do : {"add"}, type : Types]
        \cup [do : {"add_payload"}, type : {U32High(1)}, p : Payloads]
        \cup [do : {"activate", "deactivate"}, name : {Intro}]

----------------------------------------------------------------------------
(* StateMachine.  A world w is what a call of the machine reads and       *)
(* changes: the GameStates (objs), the machine's _stream with the history *)
(* of its add calls (added), the callbacks it invoked (calls, activated)  *)
(* and whether the process died (halted).                                  *)

World == [objs |-> objs, _stream |-> _stream, added |-> added,
          calls |-> <<>>, activated |-> activated, halted |-> halted]

Called(w, fn, o) == [w EXCEPT !.calls = Append(@, <<fn, o>>)]

RECURSIVE findFrom_Last(_, _, _)
\* find with a loop that keeps the last match
findFrom_Last(w, h, i) ==
    IF i <= Len(_states)
    THEN LET later == findFrom_Last(w, h, i + 1)
         IN  IF later # 0 THEN later
             ELSE IF getHash(w.objs[_states[i]]) = h THEN _states[i] ELSE 0
    ELSE 0

RECURSIVE findFrom_NoNull(_, _, _)
\* find with a loop that returns the last state when none matches
findFrom_NoNull(w, h, i) ==
    IF i <= Len(_states)
    THEN IF getHash(w.objs[_states[i]]) = h \/ i = Len(_states)
         THEN _states[i]
         ELSE findFrom_NoNull(w, h, i + 1)
    ELSE 0

RECURSIVE findFrom(_, _, _)
\* the loop of StateMachine::find from index i on; 0 is the null pointer
findFrom(w, h, i) ==
    IF i <= Len(_states)
    THEN IF getHash(w.objs[_states[i]]) = h THEN _states[i]
         ELSE findFrom(w, h, i + 1)
    ELSE 0

\* StateMachine::find
find(w, name) == findFrom(w, fnv1a(name, FNV_Seed), 1)

\* activate that invokes deactivate() on the state
activate_Deactivates(w, name) ==
    LET state == find(w, name)
    IN  IF state # 0
        THEN [Called(w, "activate", state)
                EXCEPT !.objs[state] = GameState_deactivate(@)]
        ELSE w

\* activate that clears the flag of every other state
activate_Exclusive(w, name) ==
    LET state == find(w, name)
    IN  IF state # 0
        THEN [Called(w, "activate", state)
                EXCEPT !.objs = [o \in DOMAIN @ |->
                                    IF o = state THEN GameState_activate(@[o])
                                    ELSE GameState_deactivate(@[o])],
                       !.activated = @ \cup {state}]
        ELSE w

\* StateMachine::activate
activate(w, name) ==
    LET state == find(w, name)
    IN  IF state # 0
        THEN [Called(w, "activate", state)
                EXCEPT !.objs[state] = GameState_activate(@),
                       !.activated = @ \cup {state}]
        ELSE w

\* StateMachine::deactivate
deactivate(w, name) ==
    LET state == find(w, name)
    IN  IF state # 0
        THEN [Called(w, "deactivate", state)
                EXCEPT !.objs[state] = GameState_deactivate(@)]
        ELSE w

\* an add of a tick callback on the stream it was passed; a write outside
\* the arena is undefined: the process goes on, or dies
StreamAdd(w, s, entry, n, dies) ==
    [w EXCEPT !._stream = s,
              !.added = Append(@, entry),
              !.halted = dies /\ WritesOutside(w._stream._index, n)]

\* tick(dt, stream) of a concrete state
GameState_tick(w, state, b, dies) ==
    CASE b.do = "nothing" -> w
      [] b.do = "add" ->
            StreamAdd(w, add(w._stream, b.type),
                      [type |-> b.type, p |-> <<>>, by |-> state],
                      EVENT_HEADER_SIZE, dies)
      [] b.do = "add_payload" ->
            StreamAdd(w, add_payload(w._stream, b.type, b.p, Size(b.p)),
                      [type |-> b.type, p |-> b.p, by |-> state],
                      EVENT_HEADER_SIZE + Size(b.p), dies)
      [] b.do = "activate" -> activate(w, b.name)
      [] b.do = "deactivate" -> deactivate(w, b.name)

RECURSIVE tickFrom_All(_, _, _, _)
\* the loop of tick without the test of isActive
tickFrom_All(w, i, beh, dies) ==
    IF i <= Len(_states) /\ ~w.halted
    THEN tickFrom_All(GameState_tick(Called(w, "tick", _states[i]),
                                     _states[i], beh[i], dies),
                      i + 1, beh, dies)
    ELSE w

RECURSIVE tickFrom_Snapshot(_, _, _, _)
\* the loop of tick testing the flags as they were when the tick began
tickFrom_Snapshot(w, i, beh, dies) ==
    IF i <= Len(_states) /\ ~w.halted
    THEN IF isActive(objs[_states[i]])
         THEN tickFrom_Snapshot(GameState_tick(Called(w, "tick", _states[i]),
                                               _states[i], beh[i], dies),
                                i + 1, beh, dies)
         ELSE tickFrom_Snapshot(w, i + 1, beh, dies)
    ELSE w

RECURSIVE tickFrom(_, _, _, _)
\* the loop of StateMachine::tick from index i on
tickFrom(w, i, beh, dies) ==
    IF i <= Len(_states) /\ ~w.halted
    THEN IF isActive(w.objs[_states[i]])
         THEN tickFrom(GameState_tick(Called(w, "tick", _states[i]),
                                      _states[i], beh[i], dies),
                       i + 1, beh, dies)
         ELSE tickFrom(w, i + 1, beh, dies)
    ELSE w

RECURSIVE tickFrom_Resetting(_, _, _, _)
\* the loop of tick with a reset of the stream before each callback
tickFrom_Resetting(w, i, beh, dies) ==
    IF i <= Len(_states) /\ ~w.halted
    THEN IF isActive(w.objs[_states[i]])
         THEN tickFrom_Resetting(
                GameState_tick(
                    Called([Called(w, "reset", 0)
                                EXCEPT !._stream = reset(@), !.added = <<>>],
                           "tick", _states[i]),
                    _states[i], beh[i], dies),
                i + 1, beh, dies)
         ELSE tickFrom_Resetting(w, i + 1, beh, dies)
    ELSE w

\* tick that resets the stream for each state instead of once
tick_ResetsPerState(w, beh, dies) == tickFrom_Resetting(w, 1, beh, dies)

\* StateMachine::tick
tick(w, beh, dies) ==
    tickFrom([Called(w, "reset", 0) EXCEPT !._stream = reset(@),
                                           !.added = <<>>],
             1, beh, dies)

RECURSIVE renderFrom(_, _)
\* the loop of StateMachine::render from index i on
renderFrom(w, i) ==
    IF i <= Len(_states)
    THEN IF isActive(w.objs[_states[i]])
         THEN renderFrom(Called(w, "render", _states[i]), i + 1)
         ELSE renderFrom(w, i + 1)
    ELSE w

\* render that resets the stream first, as tick does
render_Resets(w) == renderFrom([w EXCEPT !._stream = reset(@)], 1)

\* StateMachine::render
render(w) == renderFrom(w, 1)

\* StateMachine::add
StateMachine_add(states, state) == Append(states, state)

\* StateMachine::hasEvents
hasEvents == num(_stream) > 0

\* StateMachine::numEvents
numEvents == num(_stream)

\* StateMachine::getEvent
getEvent(index, u) == get(_stream, index, u)

\* StateMachine::getEventType
getEventType(index, u) == getType(_stream, index, u)

\* StateMachine::containsEventType
containsEventType(type, u) == containsType(_stream, type, u)

----------------------------------------------------------------------------
(* Initial state: the build, the constructed GameStates, an empty machine *)

Init ==
    /\ sizeof_size_t \in {4, 8}
    /\ _stream = EventStream
    /\ added = <<>>
    /\ halted = FALSE
    /\ objs = [o \in DOMAIN StateNames |-> GameState(StateNames[o])]
    /\ _states = <<>>
    /\ calls = <<>>
    /\ activated = {}
    /\ op = "new"
    /\ resets = 0

----------------------------------------------------------------------------
(* A program that uses an EventStream of its own (_stream) *)

\* a write outside the arena is undefined: the process goes on, or dies
AfterWrite(outside) ==
    \/ halted' = FALSE
    \/ outside /\ halted' = TRUE

Reset ==
    /\ ~halted
    /\ resets < MaxResets
    /\ resets' = resets + 1
    /\ _stream' = reset(_stream)
    /\ added' = <<>>
    /\ op' = "reset"
    /\ UNCHANGED <<sizeof_size_t, halted, objs, _states, calls, activated>>

Add ==
    /\ ~halted
    /\ Len(added) < MaxRecords
    /\ \E type \in Types :
        /\ _stream' = add(_stream, type)
        /\ added' = Append(added, [type |-> type, p |-> <<>>, by |-> 0])
        /\ AfterWrite(WritesOutside(_stream._index, EVENT_HEADER_SIZE))
        /\ op' = "add"
    /\ UNCHANGED <<sizeof_size_t, objs, _states, calls, activated, resets>>

AddPayload ==
    /\ ~halted
    /\ Len(added) < MaxRecords
    /\ \E type \in Types, p \in Payloads :
        /\ _stream' = add_payload(_stream, type, p, Size(p))
        /\ added' = Append(added, [type |-> type, p |-> p, by |-> 0])
        /\ AfterWrite(WritesOutside(_stream._index,
                                    EVENT_HEADER_SIZE + Size(p)))
        /\ op' = "add"
    /\ UNCHANGED <<sizeof_size_t, objs, _states, calls, activated, resets>>

StreamNext == Reset \/ Add \/ AddPayload

StreamSpec == Init /\ [][StreamNext]_vars

----------------------------------------------------------------------------
(* A host that drives a StateMachine *)

\* the world a call of the machine leaves
Leaves(w) ==
    /\ objs' = w.objs
    /\ _stream' = w._stream
    /\ added' = w.added
    /\ calls' = w.calls
    /\ activated' = w.activated
    /\ halted' = w.halted

AddState ==
    /\ ~halted
    /\ Len(_states) < MaxStates
    /\ \E o \in DOMAIN objs :
        /\ \A i \in DOMAIN _states : _states[i] # o
        /\ _states' = StateMachine_add(_states, o)
        /\ op' = "StateMachine::add"
    /\ calls' = <<>>
    /\ UNCHANGED <<sizeof_size_t, _stream, added, halted, objs, activated,
                   resets>>

Activate ==
    /\ ~halted
    /\ \E name \in Names :
        /\ Leaves(activate(World, name))
        /\ op' = "activate"
    /\ UNCHANGED <<sizeof_size_t, _states, resets>>

Deactivate ==
    /\ ~halted
    /\ \E name \in Names :
        /\ Leaves(deactivate(World, name))
        /\ op' = "deactivate"
    /\ UNCHANGED <<sizeof_size_t, _states, resets>>

Tick ==
    /\ ~halted
    /\ resets < MaxFrames
    /\ resets' = resets + 1
    /\ \E beh \in [DOMAIN _states -> Behaviours] :
        \E dies \in {FALSE, tick(World, beh, TRUE).halted} :
            Leaves(tick(World, beh, dies))
    /\ op' = "tick"
    /\ UNCHANGED <<sizeof_size_t, _states>>

Render ==
    /\ ~halted
    /\ Leaves(render(World))
    /\ op' = "render"
    /\ UNCHANGED <<sizeof_size_t, _states, resets>>

Next == AddState \/ Activate \/ Deactivate \/ Tick \/ Render

Spec == Init /\ [][Next]_vars

----------------------------------------------------------------------------
(* Properties of the EventStream (StreamSpec) *)

\* every record written since the last reset lies inside the arena
WithinCapacity == _stream._index <= Capacity

\* the indices of the records
Indices == 0..(num(_stream) - 1)

\* the int r and the uint32_t t are the same number
SameNumber(r, t) == IsSmall(t) /\ r = Small(t)

\* C1: within capacity, get(i, out) of a record added with add(type, p, size)
\* copies exactly size bytes, and they are the bytes of p, whatever was
\* added after it.
C1_RoundTrip ==
    WithinCapacity =>
        \A i \in DOMAIN added : \A u \in UB :
            added[i].p # <<>> =>
                /\ i - 1 \in Indices
                /\ get(_stream, i - 1, u).size = SizeT(Size(added[i].p))
                /\ get(_stream, i - 1, u).bytes = added[i].p

\* C2: within capacity, num() is the number of add calls since the last reset
\* and getType(i) returns the type passed to the i-th of them.
C2_CountAndTypes ==
    WithinCapacity =>
        /\ num(_stream) = Len(added)
        /\ \A i \in DOMAIN added : \A u \in UB :
            SameNumber(getType(_stream, i - 1, u).ret, added[i].type)

\* the add that was just called would push the cursor beyond the arena
Overflowing ==
    /\ op' = "add"
    /\ Len(added') = Len(added) + 1
    /\ _stream._index + EVENT_HEADER_SIZE + Size(added'[Len(added')].p)
        > Capacity

\* C5: an add that would push the bytes written beyond the capacity is
\* rejected: the process goes on, no record is appended, num() is unchanged
\* and the records added before read as before.
C5_OverflowRejected ==
    [][Overflowing =>
        /\ ~halted'
        /\ num(_stream') = num(_stream)
        /\ _stream'._index = _stream._index
        /\ \A i \in Indices : \A u \in UB :
            /\ get(_stream', i, u) = get(_stream, i, u)
            /\ getType(_stream', i, u) = getType(_stream, i, u)]_vars

\* C6: get and getType with an index >= num() fail explicitly and read
\* nothing outside the stored records.
C6_IndexChecked ==
    \A index \in num(_stream)..(num(_stream) + 1) : \A u \in UB :
        /\ get(_stream, index, u).ret = FALSE
        /\ ~get(_stream, index, u).oob
        /\ ~getType(_stream, index, u).oob

\* a type no add is given
OtherType == U32(9)

\* C10: containsType(t) is true exactly when getType(i) == t for some index
\* below num(); it is false for every type on an empty stream, and so right
\* after a reset, also for the types added before it.
C10_ContainsType ==
    \A t \in Types \cup {OtherType} : \A u \in UB :
        /\ containsType(_stream, t, u)
            <=> \E i \in Indices : U32OfInt(getType(_stream, i, u).ret) = t
        /\ WithinCapacity =>
            (containsType(_stream, t, u)
                <=> \E i \in DOMAIN added : added[i].type = t)
        /\ num(_stream) = 0 => ~containsType(_stream, t, u)
        /\ op = "reset" => ~containsType(_stream, t, u)

\* a reset has just emptied a stream whose first record had type 7: the
\* arena still holds its header
C10_Witness ==
    /\ op = "reset"
    /\ num(_stream) = 0
    /\ Take(Drop(_stream._data, 4), 4) = Mem(U32(7))

\* the first EVENT_HEADER_SIZE bytes of the header of a record with this
\* id, type and payload
HeaderBytes(id, type, p) == U32(id) \o type \o SizeTLow32(Size(p))

\* C11: reset empties the index and puts the write cursor at 0, and a reset
\* that follows a reset changes nothing; the first add after a reset gets
\* index 0 and is written at offset 0 of the arena, which keeps its size.
C11_ResetReuses ==
    [][/\ num(reset(_stream')) = 0
       /\ reset(_stream')._index = 0
       /\ reset(reset(_stream')) = reset(_stream')
       /\ op' = "reset" =>
            /\ num(_stream') = 0
            /\ _stream'._mappings = <<>>
            /\ _stream'._index = 0
       /\ (op = "reset" /\ op' = "reset") => _stream' = _stream
       /\ (op' = "add" /\ Len(added') = 1) =>
            /\ num(_stream') = 1
            /\ _stream'._mappings = <<0>>
            /\ Take(_stream'._data, EVENT_HEADER_SIZE)
                = Mem(HeaderBytes(0, added'[1].type, added'[1].p))
            /\ Take(Drop(_stream'._data, EVENT_HEADER_SIZE),
                    Size(added'[1].p)) = added'[1].p
            /\ _stream'._index = EVENT_HEADER_SIZE + Size(added'[1].p)
       /\ Size(_stream'._data) = Capacity]_vars

\* after two resets a first add(type) has been written over what the arena
\* held: the bytes behind its header are those of an earlier record
C11_Witness ==
    /\ op = "add"
    /\ resets >= 2
    /\ Len(added) = 1
    /\ added[1].p = <<>>
    /\ _stream._mappings = <<0>>
    /\ Take(Drop(_stream._data, EVENT_HEADER_SIZE), 1)
        # Run(1, Indeterminate)

----------------------------------------------------------------------------
(* Properties of the StateMachine (Spec) *)

\* the GameStates whose flag is set
Active(o) == {x \in DOMAIN o : isActive(o[x])}

\* the indices of _states whose state has the hash of name
Matches(name) ==
    {i \in DOMAIN _states :
        getHash(objs[_states[i]]) = fnv1a(name, FNV_Seed)}

\* the index of state in _states
Position(state) == CHOOSE i \in DOMAIN _states : _states[i] = state

RECURSIVE AfterCallback(_, _)
\* the active states and the rest of the log once the activate and
\* deactivate callbacks at the head of the log have run
AfterCallback(act, log) ==
    IF log # <<>> /\ Head(log)[1] = "activate"
    THEN AfterCallback(act \cup {Head(log)[2]}, Tail(log))
    ELSE IF log # <<>> /\ Head(log)[1] = "deactivate"
    THEN AfterCallback(act \ {Head(log)[2]}, Tail(log))
    ELSE [act |-> act, log |-> log]

RECURSIVE TickTrace(_, _, _)
\* log is what a tick invokes from index i on when act are the active
\* states: at its turn a state is ticked when it is active then, and only
\* then, and what its callback activates and deactivates counts from there
TickTrace(i, act, log) ==
    IF i > Len(_states) THEN log = <<>>
    ELSE IF _states[i] \in act
         THEN /\ log # <<>>
              /\ Head(log) = <<"tick", _states[i]>>
              /\ LET then == AfterCallback(act, Tail(log))
                 IN  TickTrace(i + 1, then.act, then.log)
         ELSE TickTrace(i + 1, act, log)

\* the render callbacks of the active states, in registration order
RenderTrace ==
    LET active == SelectSeq(_states, LAMBDA o : isActive(objs[o]))
    IN  [k \in DOMAIN active |-> <<"render", active[k]>>]

\* C3: tick invokes the tick callback once on each registered state that is
\* active at its turn, on no other, in registration order; render does so
\* with the render callback; a state never activated is never ticked or
\* rendered.
C3_OnlyActive ==
    [][~halted' =>
        /\ op' = "tick" =>
            /\ calls' # <<>>
            /\ TickTrace(1, Active(objs), Tail(calls'))
        /\ op' = "render" => calls' = RenderTrace
        /\ \A k \in DOMAIN calls' :
            calls'[k][1] \in {"tick", "render"}
                => calls'[k][2] \in activated']_vars

\* a tick has ticked an active state and passed over a registered state
\* that was never activated
C3_Witness ==
    /\ op = "tick"
    /\ ~halted
    /\ \E i, j \in DOMAIN _states :
        /\ \E k \in DOMAIN calls : calls[k] = <<"tick", _states[i]>>
        /\ _states[j] \notin activated
        /\ \A k \in DOMAIN calls : calls[k][2] # _states[j]

\* the payload the arena holds for record i (1, 2, ...)
Stored(i, u) ==
    Resolved(Take(Drop(_stream._data,
                       _stream._mappings[i] + EVENT_HEADER_SIZE),
                  Size(added[i].p)), u)

\* C4: after a tick the stream holds exactly the events the tick callbacks
\* of this tick appended, in the registration order of their states, and
\* nothing of an earlier tick.
C4_FrameScoped ==
    (op = "tick" /\ ~halted) =>
        /\ numEvents = Len(added)
        /\ hasEvents <=> added # <<>>
        /\ \A i \in DOMAIN added : \A u \in UB :
            /\ U32OfInt(getEventType(i - 1, u).ret) = added[i].type
            /\ Stored(i, u) = added[i].p
        /\ \A i, j \in DOMAIN added :
            i < j => Position(added[i].by) < Position(added[j].by)
        /\ \A t \in Types \cup {OtherType} : \A u \in UB :
            containsEventType(t, u)
                <=> \E i \in DOMAIN added : added[i].type = t

\* w differs from the world before the call in its callbacks at most
SameButCalls(w) == [w EXCEPT !.calls = <<>>] = World

\* C7: once activate(X) has made a registered state X active, a second
\* activate(X) leaves it active and the states, the stream and the machine
\* as they are; so for deactivate, with X inactive.
C7_Idempotent ==
    \A name \in Names :
        LET x == find(World, name)
        IN  x # 0 =>
              /\ isActive(activate(World, name).objs[x])
              /\ ~isActive(deactivate(World, name).objs[x])
              /\ (op = "activate" /\ calls = <<<<"activate", x>>>>) =>
                    /\ isActive(objs[x])
                    /\ SameButCalls(activate(World, name))
              /\ (op = "deactivate" /\ calls = <<<<"deactivate", x>>>>) =>
                    /\ ~isActive(objs[x])
                    /\ SameButCalls(deactivate(World, name))

\* activate has just activated a state that was active already
C7_Witness ==
    /\ op = "activate"
    /\ \E x \in DOMAIN objs :
        /\ calls = <<<<"activate", x>>>>
        /\ isActive(objs[x])
        /\ Len(_stream._mappings) > 0

\* C8: activate and deactivate with a name whose hash no registered state
\* has invoke no callback and change nothing.
C8_UnknownName ==
    /\ \A name \in Names :
        Matches(name) = {} =>
            /\ activate(World, name) = World
            /\ deactivate(World, name) = World
    /\ (op \in {"activate", "deactivate"} /\ calls # <<>>) =>
            /\ Len(calls) = 1
            /\ calls[1][1] = op
            /\ \E i \in DOMAIN _states : _states[i] = calls[1][2]

\* an activate of an unknown name has been called on a machine with an
\* active state and events
C8_Witness ==
    /\ op = "activate"
    /\ calls = <<>>
    /\ Matches(Menu) = {}
    /\ Active(objs) # {}
    /\ Len(_stream._mappings) > 0

\* C9: of the registered states with the hash of the name, activate and
\* deactivate invoke the callback of the one registered first and leave the
\* others alone.
C9_FirstMatch ==
    /\ \A name \in Names :
        Matches(name) # {} =>
            LET first == CHOOSE i \in Matches(name) :
                            \A j \in Matches(name) : i <= j
                x == _states[first]
                a == activate(World, name)
                d == deactivate(World, name)
            IN  /\ a.calls = <<<<"activate", x>>>>
                /\ d.calls = <<<<"deactivate", x>>>>
                /\ \A o \in DOMAIN objs \ {x} :
                    a.objs[o] = objs[o] /\ d.objs[o] = objs[o]
    /\ \A i \in DOMAIN _states :
        _states[i] \in activated =>
            \A j \in DOMAIN _states :
                getHash(objs[_states[j]]) = getHash(objs[_states[i]])
                    => i <= j

\* two registered states have the same hash, and activate has just invoked
\* the callback of the first; the second was never activated
C9_Witness ==
    /\ op = "activate"
    /\ \E i, j \in DOMAIN _states :
        /\ i < j
        /\ getHash(objs[_states[i]]) = getHash(objs[_states[j]])
        /\ calls = <<<<"activate", _states[i]>>>>
        /\ isActive(objs[_states[i]])
        /\ ~isActive(objs[_states[j]])
        /\ _states[j] \notin activated

\* the events as the queries of the machine show them on stream s
Events(s) ==
    [n |-> num(s),
     types |-> [i \in 0..(num(s) - 1) |-> [u \in UB |-> getType(s, i, u)]],
     payloads |-> [i \in 0..(num(s) - 1) |-> [u \in UB |-> get(s, i, u)]]]

\* the queries answer on t what they answer on s (they read nothing but the
\* stream)
SameEvents(s, t) == s = t \/ Events(s) = Events(t)

\* C12: render leaves the event buffer alone: numEvents, getEventType and
\* getEvent answer after a render what they answered before it, and so after
\* every call but tick.
C12_RenderKeepsEvents ==
    [][/\ op' = "render" =>
            /\ SameEvents(_stream, _stream')
            /\ added' = added
       /\ op' # "tick" => SameEvents(_stream, _stream')]_vars

\* a render has invoked the callback of an active state while the stream
\* held the events of the tick before it
C12_Witness ==
    /\ op = "render"
    /\ calls # <<>>
    /\ numEvents = 2
    /\ added[1].p # <<>>

\* where the record after record i (1, 2, ...) begins, or the write cursor
EndOf(i) ==
    IF i < Len(_stream._mappings) THEN _stream._mappings[i + 1]
    ELSE _stream._index

\* C13: every offset in _mappings points to a header whose size, read as get
\* reads it, is the payload size given to the add of the record, and the
\* header is followed by exactly that many bytes, those of the payload.
C13_ValidHeaders ==
    /\ Len(_stream._mappings) = Len(added)
    /\ \A i \in DOMAIN _stream._mappings : \A u \in UB :
        /\ HeaderSize(_stream, _stream._mappings[i], u)
            = SizeT(Size(added[i].p))
        /\ Stored(i, u) = added[i].p
        /\ EndOf(i)
            = _stream._mappings[i] + EVENT_HEADER_SIZE + Size(added[i].p)
        /\ EndOf(i) <= Capacity

RECURSIVE Written(_)
\* the bytes the adds of the history take: a header and the payload each
Written(h) ==
    IF h = <<>> THEN 0
    ELSE EVENT_HEADER_SIZE + Size(Head(h).p) + Written(Tail(h))

\* C14: the bytes written since the last reset, which the write cursor
\* counts, never exceed the capacity of the arena.
C14_CapacityBound ==
    /\ _stream._index = Written(added)
    /\ Written(added) <= Capacity

\* C15: a tick resets the stream exactly once, before the tick callback of
\* any state; the callbacks of one tick are passed the same stream, which is
\* not reset between them: the records of each lie behind those of the
\* callbacks before it.
C15_ResetOncePerTick ==
    /\ op = "tick" =>
        /\ calls # <<>>
        /\ Head(calls) = <<"reset", 0>>
        /\ \A k \in 2..Len(calls) : calls[k][1] # "reset"
        /\ \A i \in DOMAIN added :
            \E k \in 2..Len(calls) : calls[k] = <<"tick", added[i].by>>
        /\ ~halted =>
            /\ num(_stream) = Len(added)
            /\ \A i \in DOMAIN added :
                _stream._mappings[i] = Written(SubSeq(added, 1, i - 1))
    /\ op # "tick" => \A k \in DOMAIN calls : calls[k][1] # "reset"

\* a tick has run the callbacks of two states and each has added an event
C15_Witness ==
    /\ op = "tick"
    /\ ~halted
    /\ Len(added) = 2
    /\ added[1].by # added[2].by
    /\ _stream._mappings[2] > 0

\* the callback that sets the flag of a state to what it is in o
Setter(o, x) == <<IF isActive(o[x]) THEN "activate" ELSE "deactivate", x>>

\* C16: a state is inactive until an activate reaches it, and its flag
\* changes only in a call that invokes activate() or deactivate() on that
\* state; add and render of the machine change no flag, a tick changes none
\* but through the calls its callbacks make, and an activate clears none.
C16_OnlyExplicit ==
    /\ [](\A x \in DOMAIN objs : x \notin activated => ~isActive(objs[x]))
    /\ [][/\ \A x \in DOMAIN objs :
                isActive(objs'[x]) # isActive(objs[x])
                    => \E k \in DOMAIN calls' : calls'[k] = Setter(objs', x)
          /\ op' \in {"render", "StateMachine::add"} => objs' = objs
          /\ op' = "activate" => Active(objs) \subseteq Active(objs')
          /\ op' = "deactivate" => Active(objs') \subseteq Active(objs)]_vars

\* an activate has set the flag of a second registered state and the first
\* is still active
C16_Witness ==
    /\ op = "activate"
    /\ Len(_states) = 2
    /\ calls = <<<<"activate", _states[2]>>>>
    /\ isActive(objs[_states[1]])
    /\ isActive(objs[_states[2]])

\* the id field of the header of record i (1, 2, ...), as a read finds it
StoredId(i, u) == MemRead(_stream._data, _stream._mappings[i], 4, u)

\* C17: the id in the header of the record at index i is i: the ids of the
\* records since the last reset are 0, 1, 2, ... in the order of insertion.
C17_SequenceIds ==
    \A i \in DOMAIN _stream._mappings : \A u \in UB :
        StoredId(i, u) = U32(i - 1)

\* C18: get(i, out) of a record added with add(type) copies no byte,
\* whatever was added after it and whatever the arena held before.
C18_EmptyPayload ==
    \A i \in DOMAIN added : \A u \in UB :
        (added[i].p = <<>> /\ i - 1 \in Indices) =>
            /\ get(_stream, i - 1, u).size = SizeT(0)
            /\ get(_stream, i - 1, u).bytes = <<>>

\* the state whose tick callback made entry k of the log
Owner(log, k) ==
    LET t == CHOOSE j \in 1..(k - 1) :
                /\ log[j][1] = "tick"
                /\ \A l \in (j + 1)..(k - 1) : log[l][1] # "tick"
    IN  log[t][2]

\* the entries of the log in which a callback of a state registered before
\* x sets or clears the flag of x
EarlierChanges(log, x) ==
    {k \in DOMAIN log :
        /\ log[k][1] \in {"activate", "deactivate"}
        /\ log[k][2] = x
        /\ Position(Owner(log, k)) < Position(x)}

\* the flag of x when its turn comes in the tick that wrote the log, o being
\* the states when the tick began
FlagAtTurn(o, log, x) ==
    LET ks == EarlierChanges(log, x)
    IN  IF ks = {} THEN isActive(o[x])
        ELSE log[CHOOSE k \in ks : \A l \in ks : l <= k][1] = "activate"

\* the number of tick callbacks the log has for x
Ticks(log, x) == Cardinality({k \in DOMAIN log : log[k] = <<"tick", x>>})

\* C19: a tick tests the flag of a state when its turn comes: a state is
\* ticked, once, exactly when the callbacks of the states registered before
\* it left it active; what its own callback or a later one does to its flag
\* does not change that in this tick.
C19_FlagAtTurn ==
    [][(op' = "tick" /\ ~halted') =>
        \A i \in DOMAIN _states :
            Ticks(calls', _states[i])
                = IF FlagAtTurn(objs, calls', _states[i]) THEN 1 ELSE 0]_vars

\* in one tick the callback of the state registered first has activated the
\* state registered second, which has been ticked after it, and that one has
\* cleared its own flag
C19_Witness ==
    /\ op = "tick"
    /\ ~halted
    /\ Len(_states) = 2
    /\ calls = <<<<"reset", 0>>,
                 <<"tick", _states[1]>>, <<"activate", _states[2]>>,
                 <<"tick", _states[2]>>, <<"deactivate", _states[2]>>>>

\* C20: within capacity, getType(i) is the unsigned 32-bit number that was
\* given as the type to the add of record i (no negative number, and its 32
\* bits those of the type), for types of 2^31 and above too, and containsType
\* of that type is true.
C20_UnsignedType ==
    WithinCapacity =>
        \A i \in DOMAIN added : \A u \in UB :
            /\ getType(_stream, i - 1, u).ret >= 0
            /\ U32OfInt(getType(_stream, i - 1, u).ret) = added[i].type
            /\ containsType(_stream, added[i].type, u)

====
